---- MODULE Spec2Model ----
(***************************************************************************)
(* Model of the FTDC download client (ftdc/service.py, ftdc/models.py,     *)
(* ftdc/errors.py): FTDCService.get_replica_set, create_ftdc_job,          *)
(* check_job_state, download_ftdc_data and get_ftdc_data, each called by a *)
(* client against an Atlas API whose answers are chosen                    *)
(* nondeterministically.  SpecResolve, SpecSubmit, SpecPoll and            *)
(* SpecDownload are the calls of the four stages on their own; Spec is the *)
(* call of get_ftdc_data, which runs them in turn.                         *)
(*                                                                         *)
(* Python str values that flow through the client as data (replica set     *)
(* names, aliases, job ids, download urls) are sequences of one-character  *)
(* strings; str values that are only compared with fixed literals (job     *)
(* states, exception classes) are TLA+ strings.  The fields of a Shard     *)
(* have the types models.py declares: user_alias is a str,                 *)
(* replica_set_name an Optional[str].                                      *)
(***************************************************************************)
EXTENDS Integers, Sequences, FiniteSets, TLC

\* ------------------------------------------------------------------ bounds
MaxRecords == 2      \* records in one list answer to a client's get_replica_set call
MaxRunRecords == 1   \* records in the list answer within a get_ftdc_data run
MaxPolls == 3        \* IN_PROGRESS answers the status endpoint gives to one call
MaxRunChunks == 2    \* chunks in the download body within a get_ftdc_data run
MaxChunks == 2       \* chunks in one download body

\* ------------------------------------------------------------ value domains
\* Python None: a value that is no str.
None == <<"None">>

\* The names a client asks for and the names and aliases the list endpoint reports:
\* the empty str, one-character and two-character strs, so that a name can be a
\* proper substring of another, equal to it, or absent from it.
Names == {<<>>, <<"a">>, <<"b">>, <<"a", "b">>, <<"b", "a">>}

GroupKeys == {"g1", "g2"}

HttpCodes == {200, 201, 500}

\* ---------------------------------------------------------------- helpers
\* Python `sub in s` on two str values.
Contains(sub, s) ==
    \E i \in 0..(Len(s) - Len(sub)) : SubSeq(s, i + 1, i + Len(sub)) = sub

\* Python truthiness of an Optional[str].
Truthy(v) == v # None /\ v # <<>>

\* dict.get(key, default)
Get(d, key, default) == IF key \in DOMAIN d THEN d[key] ELSE default

\* Mutant of Url: the job id is left out of the url.
Url_NoJob(group, endpoint, job) == [group |-> group, endpoint |-> endpoint, job |-> <<>>]

\* The url of a request: MONGODB_API_BASE_URL/<group_key>/<endpoint>[/<job_id>[/download]]
Url(group, endpoint, job) == [group |-> group, endpoint |-> endpoint, job |-> job]

\* One entry of the session's request log.
Request(method, url, json, code) ==
    [method |-> method, url |-> url, json |-> json, status_code |-> code]

NoJson == [resourceType |-> "none"]

\* service.py:19
MONGODB_API_BASE_URL == <<"https://cloud.mongodb.com/api/atlas/v1.0/groups">>

\* service.py:198, the f-string of the download url as a str
DownloadUrlStr(group, job) ==
    MONGODB_API_BASE_URL \o <<"/", group, "/logCollectionJobs/">> \o job \o <<"/download">>

NoJob == <<>>

\* ------------------------------------------------------------------ state
VARIABLES
    entry,              \* the method of FTDCService the client called
    pc,                 \* the statement about to run, or "done" / "raised"
    group_key,          \* argument group_key
    replica_set_name,   \* argument replica_set_name (the candidate name)
    byte_size,          \* argument byte_size
    poll_interval,      \* argument poll_interval
    output_dir,         \* argument output_dir (get_ftdc_data rebinds it when it is None)
    disk_before,        \* the files on disk when the client called
    shards,             \* get_replica_set: the Shard list built from the list answer
    replica_set,        \* the resolved replica set name (argument replica_set)
    job_id,             \* the id of the created job (argument job_id)
    response,           \* check_job_state: the last answer of the status endpoint
    stream,             \* download_ftdc_data: the chunks iter_content has yet to yield
    file_path,          \* download_ftdc_data: the destination path
    ret,                \* value returned to the client
    err,                \* class of the exception raised to the client, or "none"
    requests,           \* the requests issued on self.session, in order
    sleeps,             \* the time.sleep calls, in order
    polled,             \* the status values read from 200 answers of the status endpoint
    opens,              \* the paths opened for writing, in order
    disk,               \* the files on disk
    exit_code,          \* cli.py: the exit status of the download command, -1 while it runs
    stdout,             \* cli.py: what click.echo printed
    stderr              \* cli.py: what click.echo(err=True) printed

args == <<entry, group_key, replica_set_name, byte_size, poll_interval, disk_before>>
pollVars == <<response, sleeps, polled>>
fileVars == <<stream, file_path, opens, disk>>
cliVars == <<exit_code, stdout, stderr>>

vars == <<args, cliVars, output_dir, pc, shards, replica_set, job_id, pollVars, fileVars, ret, err,
          requests>>

\* What the client holds before the call returns, and after it raised.
NoValue == [returned |-> FALSE]

\* What the client holds after the call returned v.
Returned(v) == [returned |-> TRUE, value |-> v]


\* ----------------------------------------------------- the list endpoint
\* One element of data["results"]: a dict whose userAlias / replicaSetName keys
\* may be missing; replicaSetName may also be JSON null.
Absent == <<"Absent">>

RawResult(alias, rsn) ==
    [k \in ({"typeName"}
            \cup (IF alias = Absent THEN {} ELSE {"userAlias"})
            \cup (IF rsn = Absent THEN {} ELSE {"replicaSetName"}))
       |-> CASE k = "userAlias" -> alias
             [] k = "replicaSetName" -> rsn
             [] OTHER -> "REPLICA_PRIMARY"]

RawResults == {RawResult(a, r) : a \in Names \cup {Absent}, r \in Names \cup {Absent, None}}

RECURSIVE SeqsUpTo(_, _)
SeqsUpTo(S, n) ==
    IF n = 0 THEN {<<>>}
    ELSE LET shorter == SeqsUpTo(S, n - 1)
         IN  shorter \cup {Append(s, x) : s \in {t \in shorter : Len(t) = n - 1}, x \in S}

\* The json bodies of a 200 answer of the processes endpoint, of up to n records;
\* the results key may be missing.
ProcessesData(n) ==
    {[k \in {} |-> <<>>]} \cup {[results |-> rs] : rs \in SeqsUpTo(RawResults, n)}

\* service.py:62-66
Shard(result) ==
    [user_alias |-> Get(result, "userAlias", <<>>),
     type_name |-> Get(result, "typeName", ""),
     replica_set_name |-> Get(result, "replicaSetName", None)]

\* service.py:61-68
Shards(data) ==
    LET results == Get(data, "results", <<>>)
    IN  [i \in 1..Len(results) |-> Shard(results[i])]

\* service.py:74-75, the filter condition
Matches(shard, name) ==
    \/ (Truthy(shard.replica_set_name) /\ Contains(name, shard.replica_set_name))
    \/ Contains(name, shard.user_alias)

\* Mutant of MatchingShards: the filter keeps every shard.
MatchingShards_NoFilter(all, name) == all

\* service.py:71-76
MatchingShards(all, name) == SelectSeq(all, LAMBDA shard : Matches(shard, name))

\* Mutant of ResolveOutcome: the last match is returned instead of the first.
ResolveOutcome_LastMatch(all, name) ==
    LET matching_shards == MatchingShards(all, name)
    IN  IF matching_shards = <<>>
        THEN [raised |-> "ReplicaSetNotFoundError", value |-> None]
        ELSE LET last_shard == matching_shards[Len(matching_shards)]
             IN  IF Truthy(last_shard.replica_set_name)
                 THEN [raised |-> "none", value |-> last_shard.replica_set_name]
                 ELSE [raised |-> "ReplicaSetNotFoundError", value |-> None]

\* Mutant of ResolveOutcome: a match without a name is skipped and the next
\* match that has one is returned.
ResolveOutcome_FallThrough(all, name) ==
    LET named == SelectSeq(MatchingShards(all, name),
                           LAMBDA shard : Truthy(shard.replica_set_name))
    IN  IF named = <<>>
        THEN [raised |-> "ReplicaSetNotFoundError", value |-> None]
        ELSE [raised |-> "none", value |-> named[1].replica_set_name]

\* Mutant of ResolveOutcome: the candidate name is returned, not the groupName.
ResolveOutcome_EchoesCandidate(all, name) ==
    LET matching_shards == MatchingShards(all, name)
    IN  IF matching_shards = <<>>
        THEN [raised |-> "ReplicaSetNotFoundError", value |-> None]
        ELSE IF Truthy(matching_shards[1].replica_set_name)
             THEN [raised |-> "none", value |-> name]
             ELSE [raised |-> "ReplicaSetNotFoundError", value |-> None]

\* service.py:78-90: the outcome of get_replica_set on a fetched list
ResolveOutcome(all, name) ==
    LET matching_shards == MatchingShards(all, name)
    IN  IF matching_shards = <<>>
        THEN [raised |-> "ReplicaSetNotFoundError", value |-> None]
        ELSE LET first_shard == matching_shards[1]
             IN  IF Truthy(first_shard.replica_set_name)
                 THEN [raised |-> "none", value |-> first_shard.replica_set_name]
                 ELSE [raised |-> "ReplicaSetNotFoundError", value |-> None]

\* ------------------------------------------------------------ control flow
\* Mutant of NextStage: the download follows the creation call, without polling.
NextStage_SkipPoll(method) ==
    CASE method = "get_replica_set" -> "create_ftdc_job"
      [] method = "create_ftdc_job" -> "download_ftdc_data"
      [] method = "check_job_state" -> "download_ftdc_data"
      [] OTHER -> "done"

\* get_ftdc_data, service.py:241-258: the statement that follows the call of `method`.
NextStage(method) ==
    CASE method = "get_replica_set" -> "create_ftdc_job"
      [] method = "create_ftdc_job" -> "check_job_state"
      [] method = "check_job_state" -> "download_ftdc_data"
      [] OTHER -> "done"

\* `method` returns v: to the client when the client called it (or when it is the
\* last statement of get_ftdc_data), else to get_ftdc_data, which goes on.
Return(method, v) ==
    IF entry = method \/ NextStage(method) = "done"
    THEN /\ pc' = "done"
         /\ ret' = Returned(v)
         /\ err' = "none"
    ELSE /\ pc' = NextStage(method)
         /\ UNCHANGED <<ret, err>>

\* Mutant of Raise: get_ftdc_data wraps what a stage raised in the base class.
Raise_Wrapped(e) ==
    /\ pc' = "raised"
    /\ ret' = NoValue
    /\ err' = IF entry = "get_ftdc_data" THEN "FTDCError" ELSE e

\* An exception of class e leaves the method; nothing in service.py catches it.
Raise(e) ==
    /\ pc' = "raised"
    /\ ret' = NoValue
    /\ err' = e

\* self.session.get / self.session.post: the request is logged with its answer's status.
Send(method, url, json, code) ==
    requests' = Append(requests, Request(method, url, json, code))

\* Mutant of ListOk: the status of the list answer is not looked at.
ListOk_Unchecked(code) == TRUE

\* service.py:54, the list query succeeded
ListOk(code) == code = 200

\* FTDCService.get_replica_set, service.py:35-90
GetReplicaSet ==
    /\ pc = "get_replica_set"
    /\ \E code \in HttpCodes :
         /\ Send("GET", Url(group_key, "processes", NoJob), NoJson, code)
         /\ \/ /\ ~ListOk(code)
               /\ Raise("ReplicaSetNotFoundError")
               /\ UNCHANGED <<shards, replica_set>>
            \/ /\ ListOk(code)
               /\ \E data \in ProcessesData(IF entry = "get_replica_set"
                                               THEN MaxRecords ELSE MaxRunRecords) :
                    LET out == ResolveOutcome(Shards(data), replica_set_name)
                    IN  /\ shards' = Shards(data)
                        /\ IF out.raised = "none"
                           THEN /\ replica_set' = out.value
                                /\ Return("get_replica_set", out.value)
                           ELSE /\ UNCHANGED replica_set
                                /\ Raise(out.raised)
    /\ UNCHANGED <<args, cliVars, output_dir, job_id, pollVars, fileVars>>

\* ---------------------------------------------------------- job creation
JobIds == {<<"j", "1">>, <<"j", "2">>}

\* service.py:224, the default of byte_size
DefaultByteSize == 10000000

ByteSizes == {-1, 0, 1, DefaultByteSize}

\* The json bodies of an answer of the job-creation endpoint.
CreationData == {[k \in {} |-> <<>>]} \cup {[id |-> j] : j \in JobIds}

\* LogCollectionJob.create, models.py:54-63
LogCollectionJobCreate(name, size) ==
    [resource_type |-> "REPLICASET",
     resource_name |-> name,
     redacted |-> TRUE,
     size_requested_per_file_bytes |-> size,
     log_types |-> <<"FTDC">>]

\* service.py:111-117
Payload(job) ==
    [resourceType |-> job.resource_type,
     resourceName |-> job.resource_name,
     redacted |-> job.redacted,
     sizeRequestedPerFileBytes |-> job.size_requested_per_file_bytes,
     logTypes |-> job.log_types]

\* Mutant of Created: every answer below 300 counts as created.
Created_AnySuccess(code) == code < 300

\* service.py:126, the answer reports the job as created
Created(code) == code = 201

\* FTDCService.create_ftdc_job, service.py:92-133
CreateFtdcJob ==
    /\ pc = "create_ftdc_job"
    /\ \E code \in HttpCodes, data \in CreationData :
         /\ Send("POST", Url(group_key, "logCollectionJobs", NoJob),
                 Payload(LogCollectionJobCreate(replica_set, byte_size)), code)
         /\ IF ~Created(code)
            THEN /\ Raise("JobCreationError")
                 /\ UNCHANGED job_id
            ELSE IF "id" \notin DOMAIN data
            THEN /\ Raise("KeyError")
                 /\ UNCHANGED job_id
            ELSE /\ job_id' = data["id"]
                 /\ Return("create_ftdc_job", [id |-> data["id"]])
    /\ shards' = <<>>   \* the locals of get_replica_set are gone
    /\ UNCHANGED <<args, cliVars, output_dir, replica_set, pollVars, fileVars>>

\* ---------------------------------------------------------------- polling
\* models.py:8-14
JobState ==
    [SUCCESS |-> "SUCCESS", FAILURE |-> "FAILURE", IN_PROGRESS |-> "IN_PROGRESS",
     MARKED_FOR_EXPIRY |-> "MARKED_FOR_EXPIRY", EXPIRED |-> "EXPIRED"]

JobStates == {JobState[k] : k \in DOMAIN JobState}

\* The status values the status endpoint may send: the five states, the empty
\* str, a state the client does not know and a misspelt one.
StatusValues == JobStates \cup {"", "PENDING", "in_progress"}

\* The downloadUrl values the status endpoint may send: the empty str, a url
\* elsewhere, and the url of the download endpoint of job j1 of group g1.
DownloadUrls == {<<>>, <<"u", "1">>, DownloadUrlStr("g1", <<"j", "1">>)}

\* service.py:136, the default of poll_interval
DefaultPollInterval == 3

PollIntervals == {1, DefaultPollInterval}

StatusDict(status, url) ==
    [k \in ((IF status = "absent" THEN {} ELSE {"status"})
            \cup (IF url = Absent THEN {} ELSE {"downloadUrl"}))
       |-> IF k = "status" THEN status ELSE url]

\* The json bodies of a 200 answer of the status endpoint: status and
\* downloadUrl may each be missing.
StatusData ==
    {StatusDict(st, u) : st \in StatusValues \cup {"absent"}, u \in DownloadUrls \cup {Absent}}

NoResponse == [status_code |-> 0, data |-> [k \in {} |-> <<>>]]

\* Mutant of PollVerdict: a status the client does not know counts as still running.
PollVerdict_UnknownWaits(status) ==
    IF status \in {JobState.SUCCESS, JobState.MARKED_FOR_EXPIRY} THEN "return"
    ELSE IF status \in {JobState.FAILURE, JobState.EXPIRED} THEN "raise"
    ELSE "sleep"

\* Mutant of PollVerdict: a failed or expired job is polled again.
PollVerdict_RetryFailure(status) ==
    IF status \in {JobState.IN_PROGRESS, JobState.FAILURE, JobState.EXPIRED} THEN "sleep"
    ELSE IF status \in {JobState.SUCCESS, JobState.MARKED_FOR_EXPIRY} THEN "return"
    ELSE "raise"

\* service.py:165-179, the branch taken on a status value
PollVerdict(status) ==
    IF status = JobState.IN_PROGRESS THEN "sleep"
    ELSE IF status \in {JobState.SUCCESS, JobState.MARKED_FOR_EXPIRY} THEN "return"
    ELSE IF status \in {JobState.FAILURE, JobState.EXPIRED} THEN "raise"
    ELSE "raise"

\* Mutant of Slept: the loop goes on without waiting.
Slept_NoWait(log, secs, after) == log

\* service.py:167, time.sleep(poll_interval) after `after` requests
Slept(log, secs, after) == Append(log, [secs |-> secs, after |-> after])

\* Mutant of DownloadUrlOf: an empty downloadUrl is replaced by a null.
DownloadUrlOf_EmptyIsNull(data) ==
    IF Get(data, "downloadUrl", <<>>) = <<>> THEN None ELSE data["downloadUrl"]

\* service.py:171
DownloadUrlOf(data) == Get(data, "downloadUrl", <<>>)

\* Mutant of StatusOk: the status code of the answer is not looked at.
StatusOk_Always(code) == TRUE

\* Mutant of StatusOk: any answer below 500 is read as a status answer.
StatusOk_Below500(code) == code < 500

\* service.py:156, the status query succeeded
StatusOk(code) == code = 200

\* One round of the loop of FTDCService.check_job_state, service.py:153-179.
\* The status endpoint answers IN_PROGRESS at most MaxPolls times.
CheckJobState ==
    /\ pc = "check_job_state"
    /\ \E code \in HttpCodes, data \in StatusData :
         LET status == Get(data, "status", "")
             verdict == PollVerdict(status)
         IN  /\ Send("GET", Url(group_key, "logCollectionJobs/{job_id}", job_id), NoJson, code)
             /\ response' = [status_code |-> code, data |-> data]
             /\ IF ~StatusOk(code)
                THEN /\ Raise("JobStatusError")
                     /\ UNCHANGED <<sleeps, polled>>
                ELSE /\ polled' = Append(polled, status)
                     /\ CASE verdict = "sleep" ->
                               /\ Len(sleeps) < MaxPolls
                               /\ sleeps' = Slept(sleeps, poll_interval, Len(requests'))
                               /\ UNCHANGED <<pc, ret, err>>
                          [] verdict = "return" ->
                               /\ Return("check_job_state", DownloadUrlOf(data))
                               /\ UNCHANGED sleeps
                          [] OTHER ->
                               /\ Raise("JobStatusError")
                               /\ UNCHANGED sleeps
    /\ UNCHANGED <<args, cliVars, output_dir, shards, replica_set, job_id, fileVars>>

\* --------------------------------------------------------------- download
\* Optional[Path] = None, service.py:225
NoDir == "None"

\* Path.cwd(), service.py:239
Cwd == "/cwd"

OutputDirs == {Cwd, "/data"}

Chunks == {"c1", "c2"}

\* The bodies the download endpoint may stream.
Bodies == SeqsUpTo(Chunks, MaxChunks)

\* The bodies the download endpoint may stream within a get_ftdc_data run: the
\* chunks c1, c2, c1, ... up to MaxRunChunks of them.
RunBodies ==
    {[i \in 1..n |-> IF i % 2 = 1 THEN "c1" ELSE "c2"] : n \in 0..MaxRunChunks}

\* service.py:208
Filename(name, job) == <<"ftdc_data_">> \o name \o <<"_job_">> \o job \o <<".tar.gz">>

\* service.py:209, output_dir / filename
PathIn(dir, filename) == [dir |-> dir, name |-> filename]

NoPath == [dir |-> "", name |-> <<>>]

\* The file at path p holding the chunks in data.
File(p, data) == [path |-> p, data |-> data]

\* open(path, "wb"): the file is created, or truncated when it exists.
Opened(files, p) == {f \in files : f.path # p} \cup {File(p, <<>>)}

\* f.write(chunk): chunk is appended to the open file.
Written(files, p, chunk) ==
    {IF f.path = p THEN File(p, Append(f.data, chunk)) ELSE f : f \in files}

\* Mutant of Closed: the file of a failed download is removed.
Closed_Removed(files, p) == {f \in files : f.path # p}

\* service.py:213, leaving the with statement on an exception: the file is
\* closed and stays as written.
Closed(files, p) == files

\* Mutant of DownloadOk: the status of the download answer is not looked at.
DownloadOk_Unchecked(code) == TRUE

\* service.py:202, the download endpoint answered with the stream
DownloadOk(code) == code = 200

\* FTDCService.download_ftdc_data, service.py:198-211: the request and the path
DownloadFtdcData ==
    /\ pc = "download_ftdc_data"
    /\ \E code \in HttpCodes,
          body \in (IF entry = "download_ftdc_data" THEN Bodies ELSE RunBodies) :
         /\ Send("GET", Url(group_key, "logCollectionJobs/{job_id}/download", job_id),
                 NoJson, code)
         /\ IF ~DownloadOk(code)
            THEN /\ Raise("DownloadError")
                 /\ UNCHANGED <<stream, file_path>>
            ELSE /\ stream' = body
                 /\ file_path' = PathIn(output_dir, Filename(replica_set, job_id))
                 /\ pc' = "open"
                 /\ UNCHANGED <<ret, err>>
    /\ UNCHANGED <<args, cliVars, output_dir, shards, replica_set, job_id, pollVars, opens, disk>>

\* service.py:213, open(file_path, "wb"): it creates or truncates the file, or
\* raises OSError (no such directory, no permission).
OpenFile ==
    /\ pc = "open"
    /\ \/ /\ opens' = Append(opens, file_path)
          /\ disk' = Opened(disk, file_path)
          /\ pc' = "write"
          /\ UNCHANGED <<ret, err>>
       \/ /\ Raise("OSError")
          /\ UNCHANGED <<opens, disk>>
    /\ UNCHANGED <<args, cliVars, output_dir, shards, replica_set, job_id, pollVars, stream, file_path, requests>>

\* service.py:214-215, one round of the loop: the next chunk is written, or the
\* stream breaks (ConnectionError), or the write fails (OSError); the with
\* statement closes the file and the exception goes on.
WriteChunk ==
    /\ pc = "write"
    /\ \/ /\ stream # <<>>
          /\ disk' = Written(disk, file_path, Head(stream))
          /\ stream' = Tail(stream)
          /\ UNCHANGED <<pc, ret, err>>
       \/ /\ \E e \in {"ConnectionError", "OSError"} : Raise(e)
          /\ disk' = Closed(disk, file_path)
          /\ UNCHANGED stream
    /\ UNCHANGED <<args, cliVars, output_dir, shards, replica_set, job_id, pollVars, file_path, opens, requests>>

\* service.py:214-218: the stream is exhausted, the file is closed, the path returned
FinishDownload ==
    /\ pc = "write"
    /\ stream = <<>>
    /\ Return("download_ftdc_data", file_path)
    /\ UNCHANGED <<args, cliVars, output_dir, shards, replica_set, job_id, pollVars, fileVars, requests>>

\* ------------------------------------------------------------ the run
\* FTDCService.get_ftdc_data, service.py:238-243: output_dir defaults to the
\* current directory, then the stages run one after the other (NextStage).
GetFtdcData ==
    /\ pc = "get_ftdc_data"
    /\ output_dir' = IF output_dir = NoDir THEN Cwd ELSE output_dir
    /\ pc' = "get_replica_set"
    /\ UNCHANGED <<args, cliVars, shards, replica_set, job_id, pollVars, fileVars, ret, err, requests>>

\* ---------------------------------------------------- the download command
\* errors.py:4-32, the classes that derive from FTDCError
FTDCErrors ==
    {"FTDCError", "ReplicaSetNotFoundError", "JobCreationError", "JobStatusError",
     "DownloadError", "AuthenticationError"}

\* cli.py:102 and cli.py:105, the message printed for an exception of class e
ErrorMessage(e) ==
    [prefix |-> IF e \in FTDCErrors THEN "Error: " ELSE "Unexpected error: ", error |-> e]

\* Mutant of ExitStatus: the two exit statuses are swapped.
ExitStatus_Swapped(e) == IF e = "none" THEN 1 ELSE 0

\* cli.py:99-106, the exit status: 0 when get_ftdc_data returned (e = "none"),
\* sys.exit(1) in both except clauses
ExitStatus(e) == IF e = "none" THEN 0 ELSE 1

\* cli.py:89-97: the command builds the service and calls get_ftdc_data
Download ==
    /\ pc = "download"
    /\ pc' = "get_ftdc_data"
    /\ UNCHANGED <<args, cliVars, output_dir, shards, replica_set, job_id, pollVars, fileVars,
                   ret, err, requests>>

\* cli.py:99: get_ftdc_data returned, the path is printed and the command ends
DownloadEcho ==
    /\ entry = "download"
    /\ pc = "done"
    /\ stdout' = Append(stdout, [text |-> "Downloaded to: ", path |-> ret.value])
    /\ exit_code' = ExitStatus(err)
    /\ pc' = "exited"
    /\ UNCHANGED <<args, stderr, output_dir, shards, replica_set, job_id, pollVars, fileVars,
                   ret, err, requests>>

\* cli.py:101-106: get_ftdc_data raised, the message is printed to the error
\* stream and the command exits
DownloadExcept ==
    /\ entry = "download"
    /\ pc = "raised"
    /\ stderr' = Append(stderr, ErrorMessage(err))
    /\ exit_code' = ExitStatus(err)
    /\ pc' = "exited"
    /\ UNCHANGED <<args, stdout, output_dir, shards, replica_set, job_id, pollVars, fileVars,
                   ret, err, requests>>

\* ------------------------------------------------------- specifications
\* FTDCService.__init__, service.py:25-33, and the state no call has touched yet.
Fresh ==
    /\ shards = <<>>
    /\ response = NoResponse
    /\ stream = <<>>
    /\ file_path = NoPath
    /\ ret = NoValue
    /\ err = "none"
    /\ requests = <<>>
    /\ sleeps = <<>>
    /\ polled = <<>>
    /\ opens = <<>>
    /\ disk = disk_before
    /\ exit_code = -1
    /\ stdout = <<>>
    /\ stderr = <<>>

\* A client calls get_replica_set(group_key, replica_set_name).
InitResolve ==
    /\ entry = "get_replica_set"
    /\ pc = "get_replica_set"
    /\ group_key \in GroupKeys
    /\ replica_set_name \in Names
    /\ byte_size = DefaultByteSize
    /\ poll_interval = DefaultPollInterval
    /\ output_dir = Cwd
    /\ disk_before = {}
    /\ replica_set = None
    /\ job_id = None
    /\ Fresh

NextResolve == GetReplicaSet

SpecResolve == InitResolve /\ [][NextResolve]_vars

\* A client calls create_ftdc_job(group_key, replica_set, byte_size).
InitSubmit ==
    /\ entry = "create_ftdc_job"
    /\ pc = "create_ftdc_job"
    /\ group_key \in GroupKeys
    /\ replica_set_name = <<>>
    /\ byte_size \in ByteSizes
    /\ poll_interval = DefaultPollInterval
    /\ output_dir = Cwd
    /\ disk_before = {}
    /\ replica_set \in Names
    /\ job_id = None
    /\ Fresh

NextSubmit == CreateFtdcJob

SpecSubmit == InitSubmit /\ [][NextSubmit]_vars

\* A client calls check_job_state(group_key, job_id, poll_interval).
InitPoll ==
    /\ entry = "check_job_state"
    /\ pc = "check_job_state"
    /\ group_key \in GroupKeys
    /\ replica_set_name = <<>>
    /\ byte_size = DefaultByteSize
    /\ poll_interval \in PollIntervals
    /\ output_dir = Cwd
    /\ disk_before = {}
    /\ replica_set = None
    /\ job_id \in JobIds
    /\ Fresh

NextPoll == CheckJobState

SpecPoll == InitPoll /\ [][NextPoll]_vars

\* The files that may lie in dir before a download of (name, job): none, or a
\* file of an earlier download at the same path.
DisksBefore(dir, name, job) ==
    {{}, {File(PathIn(dir, Filename(name, job)), <<"old">>)}}

\* A client calls download_ftdc_data(group_key, job_id, replica_set, output_dir).
InitDownload ==
    /\ entry = "download_ftdc_data"
    /\ pc = "download_ftdc_data"
    /\ group_key \in GroupKeys
    /\ replica_set_name = <<>>
    /\ byte_size = DefaultByteSize
    /\ poll_interval = DefaultPollInterval
    /\ output_dir \in OutputDirs
    /\ replica_set \in Names
    /\ job_id \in JobIds
    /\ disk_before \in DisksBefore(output_dir, replica_set, job_id)
    /\ Fresh

NextDownload ==
    \/ DownloadFtdcData
    \/ OpenFile
    \/ WriteChunk
    \/ FinishDownload

SpecDownload == InitDownload /\ [][NextDownload]_vars

\* A client calls get_ftdc_data(group_key, replica_set_name, byte_size, output_dir);
\* check_job_state is called with its default poll_interval.
Init ==
    /\ entry = "get_ftdc_data"
    /\ pc = "get_ftdc_data"
    /\ group_key \in GroupKeys
    /\ replica_set_name \in Names
    /\ byte_size \in ByteSizes
    /\ poll_interval = DefaultPollInterval
    /\ output_dir \in OutputDirs \cup {NoDir}
    /\ disk_before = {}
    /\ replica_set = None
    /\ job_id = None
    /\ Fresh

Next ==
    \/ GetFtdcData
    \/ GetReplicaSet
    \/ CreateFtdcJob
    \/ CheckJobState
    \/ DownloadFtdcData
    \/ OpenFile
    \/ WriteChunk
    \/ FinishDownload

Spec == Init /\ [][Next]_vars

\* check_job_state called by a client, the loop going on as long as it can:
\* nothing in service.py suspends it but time.sleep, which returns.
SpecPollFair == SpecPoll /\ WF_vars(CheckJobState)

\* A user runs the download command; --size and --output-dir may be given.
InitCli ==
    /\ entry = "download"
    /\ pc = "download"
    /\ group_key \in GroupKeys
    /\ replica_set_name \in Names
    /\ byte_size \in ByteSizes
    /\ poll_interval = DefaultPollInterval
    /\ output_dir \in OutputDirs \cup {NoDir}
    /\ disk_before = {}
    /\ replica_set = None
    /\ job_id = None
    /\ Fresh

NextCli ==
    \/ Download
    \/ DownloadEcho
    \/ DownloadExcept
    \/ Next

SpecCli == InitCli /\ [][NextCli]_vars

\* ======================================================= claims: resolver
\* get_replica_set has finished (returned or raised).
Finished == pc \in {"done", "raised"}

\* The list query was answered 200, so a record list was fetched.
ListFetched ==
    /\ Len(requests) >= 1
    /\ requests[1].url.endpoint = "processes"
    /\ requests[1].status_code = 200

\* The candidate name occurs as a substring of the record's groupName
\* (replica_set_name) or of its alias (user_alias).
Occurs(name, shard) ==
    \/ (shard.replica_set_name # None /\ Contains(name, shard.replica_set_name))
    \/ Contains(name, shard.user_alias)

OccurringIndexes == {i \in 1..Len(shards) : Occurs(replica_set_name, shards[i])}

FirstOccurring == CHOOSE i \in OccurringIndexes : \A j \in OccurringIndexes : i <= j

\* The record has a groupName: present and not empty.
HasGroupName(shard) == shard.replica_set_name # None /\ shard.replica_set_name # <<>>

\* C1 as stated: whenever the candidate name occurs in some record of the fetched
\* list, get_replica_set returns the groupName of the first such record.
C1_AlwaysReturnsFirst ==
    (entry = "get_replica_set" /\ Finished /\ ListFetched /\ OccurringIndexes # {})
        => (pc = "done" /\ ret = Returned(shards[FirstOccurring].replica_set_name))

\* C1 amended: whenever the candidate name occurs in some record of the fetched
\* list and the first such record has a non-empty groupName, get_replica_set
\* returns that groupName; and whatever get_replica_set returns is the groupName
\* of the first such record, never that of a later one.
C1_ReturnsFirstMatch ==
    (entry = "get_replica_set" /\ Finished /\ ListFetched /\ OccurringIndexes # {})
        => /\ HasGroupName(shards[FirstOccurring])
                => (pc = "done" /\ ret = Returned(shards[FirstOccurring].replica_set_name))
           /\ pc = "done" => ret = Returned(shards[FirstOccurring].replica_set_name)

\* Two records match, their groupNames differ, and the first one's was returned.
C1_Witness ==
    /\ entry = "get_replica_set" /\ pc = "done" /\ ListFetched
    /\ Len(shards) = 2
    /\ OccurringIndexes = {1, 2}
    /\ HasGroupName(shards[2])
    /\ shards[1].replica_set_name # shards[2].replica_set_name
    /\ ret = Returned(shards[1].replica_set_name)

\* C2: when the first record that matches the candidate name has no groupName
\* (absent or empty), get_replica_set fails with ReplicaSetNotFoundError and
\* returns nothing, also when a later matching record has a groupName.
C2_NoFallThrough ==
    (/\ entry = "get_replica_set" /\ Finished /\ ListFetched
     /\ OccurringIndexes # {}
     /\ ~HasGroupName(shards[FirstOccurring]))
        => (pc = "raised" /\ err = "ReplicaSetNotFoundError" /\ ret = NoValue)

\* The first match has no groupName, a later match has one, and the call failed.
C2_Witness ==
    /\ entry = "get_replica_set" /\ pc = "raised" /\ ListFetched
    /\ OccurringIndexes # {}
    /\ ~HasGroupName(shards[FirstOccurring])
    /\ \E j \in OccurringIndexes : j > FirstOccurring /\ HasGroupName(shards[j])
    /\ err = "ReplicaSetNotFoundError"

\* The record matches by the rule of the specification: a non-empty groupName
\* contains the candidate name, or the alias contains it.
RuleMatch(name, shard) ==
    \/ (HasGroupName(shard) /\ Contains(name, shard.replica_set_name))
    \/ Contains(name, shard.user_alias)

\* C3: when no record of the fetched list matches the candidate name,
\* get_replica_set fails with ReplicaSetNotFoundError and returns no name.
C3_NoMatchFails ==
    (/\ entry = "get_replica_set" /\ Finished /\ ListFetched
     /\ \A i \in 1..Len(shards) : ~RuleMatch(replica_set_name, shards[i]))
        => (pc = "raised" /\ err = "ReplicaSetNotFoundError" /\ ret = NoValue)

\* A fetched list of two named records, neither matching, and the call failed.
C3_Witness ==
    /\ entry = "get_replica_set" /\ pc = "raised" /\ ListFetched
    /\ Len(shards) = 2
    /\ \A i \in 1..2 : HasGroupName(shards[i]) /\ ~RuleMatch(replica_set_name, shards[i])
    /\ err = "ReplicaSetNotFoundError"

\* ========================================================= claims: poller
StatusQueryIndexes ==
    {i \in 1..Len(requests) : requests[i].url.endpoint = "logCollectionJobs/{job_id}"}

InProgressAnswers == Cardinality({i \in 1..Len(polled) : polled[i] = "IN_PROGRESS"})

TerminalStates == {"SUCCESS", "MARKED_FOR_EXPIRY", "FAILURE", "EXPIRED"}

KnownStates == TerminalStates \cup {"IN_PROGRESS"}

\* The last status query was answered 200 with a status in S.
LastAnswerIn(S) ==
    /\ polled # <<>>
    /\ Len(polled) = Len(requests)
    /\ polled[Len(polled)] \in S

\* No time.sleep call was made after the last request.
NoWaitAfterLastQuery == \A k \in 1..Len(sleeps) : sleeps[k].after < Len(requests)

\* C4: when the status endpoint answered IN_PROGRESS N times and then a terminal
\* state, check_job_state has made exactly N waits and N + 1 status queries: the
\* k-th wait follows the k-th query, so no wait precedes the first query and none
\* follows the terminal answer.
C4_WaitsAndQueries ==
    (entry = "check_job_state" /\ Finished /\ LastAnswerIn(TerminalStates))
        => LET N == InProgressAnswers
           IN  /\ Len(sleeps) = N
               /\ Cardinality(StatusQueryIndexes) = N + 1
               /\ Len(requests) = N + 1
               /\ \A k \in 1..Len(sleeps) :
                    sleeps[k].after = k /\ sleeps[k].secs = poll_interval

\* Two IN_PROGRESS answers, then SUCCESS: two waits, three queries.
C4_Witness ==
    /\ entry = "check_job_state" /\ pc = "done"
    /\ polled = <<"IN_PROGRESS", "IN_PROGRESS", "SUCCESS">>
    /\ Len(sleeps) = 2
    /\ Len(requests) = 3

\* C5: a status query answered FAILURE or EXPIRED is the last thing
\* check_job_state does: it fails with JobStatusError at that answer, with no
\* later status query and no wait after it, however many IN_PROGRESS answers
\* came before.
C5_FailureIsFinal ==
    \A i \in 1..Len(polled) :
        (entry = "check_job_state" /\ polled[i] \in {"FAILURE", "EXPIRED"})
            => /\ i = Len(polled)
               /\ Len(requests) = i
               /\ pc = "raised" /\ err = "JobStatusError" /\ ret = NoValue
               /\ NoWaitAfterLastQuery

\* EXPIRED after two IN_PROGRESS answers, and the call failed.
C5_Witness ==
    /\ entry = "check_job_state" /\ pc = "raised" /\ err = "JobStatusError"
    /\ polled = <<"IN_PROGRESS", "IN_PROGRESS", "EXPIRED">>
    /\ Len(sleeps) = 2

\* C6: a 200 answer whose status is none of the five job states (a missing
\* status is read as the empty str) makes check_job_state fail with
\* JobStatusError at that answer: it is followed by no wait and no query, and
\* nothing is returned.
C6_UnknownStateFails ==
    /\ \A i \in 1..Len(polled) :
         (entry = "check_job_state" /\ polled[i] \notin KnownStates)
             => /\ i = Len(polled)
                /\ Len(requests) = i
                /\ pc = "raised" /\ err = "JobStatusError" /\ ret = NoValue
                /\ NoWaitAfterLastQuery
    /\ (entry = "check_job_state" /\ polled # <<>> /\ Len(polled) = Len(requests)
        /\ "status" \notin DOMAIN response.data)
           => polled[Len(polled)] = ""

\* An answer without a status field, after one IN_PROGRESS answer, and the call failed.
C6_Witness ==
    /\ entry = "check_job_state" /\ pc = "raised" /\ err = "JobStatusError"
    /\ polled = <<"IN_PROGRESS", "">>
    /\ response.status_code = 200
    /\ "status" \notin DOMAIN response.data

\* C7: when the last status answer says SUCCESS or MARKED_FOR_EXPIRY,
\* check_job_state returns the downloadUrl of that answer as it is, and the
\* empty str when the answer has no downloadUrl; an empty one is no error.
C7_ReturnsDownloadUrl ==
    (entry = "check_job_state" /\ LastAnswerIn({"SUCCESS", "MARKED_FOR_EXPIRY"}))
        => /\ pc = "done" /\ err = "none"
           /\ ret = Returned(IF "downloadUrl" \in DOMAIN response.data
                             THEN response.data["downloadUrl"]
                             ELSE <<>>)

\* MARKED_FOR_EXPIRY with an empty downloadUrl: the empty str was returned.
C7_Witness ==
    /\ entry = "check_job_state" /\ pc = "done"
    /\ LastAnswerIn({"MARKED_FOR_EXPIRY"})
    /\ "downloadUrl" \in DOMAIN response.data
    /\ response.data["downloadUrl"] = <<>>
    /\ ret = Returned(<<>>)

\* C8: a status query answered with a status code other than 200 is the last
\* thing check_job_state does: it fails with JobStatusError, with no later
\* query and no wait after it.
C8_QueryFailureIsFinal ==
    \A i \in StatusQueryIndexes :
        (entry = "check_job_state" /\ requests[i].status_code # 200)
            => /\ i = Len(requests)
               /\ pc = "raised" /\ err = "JobStatusError" /\ ret = NoValue
               /\ NoWaitAfterLastQuery

\* A 201 answer after two IN_PROGRESS answers, its body saying SUCCESS, and the
\* call failed.
C8_Witness ==
    /\ entry = "check_job_state" /\ pc = "raised" /\ err = "JobStatusError"
    /\ polled = <<"IN_PROGRESS", "IN_PROGRESS">>
    /\ Len(requests) = 3
    /\ requests[3].status_code = 201
    /\ Get(response.data, "status", "") = "SUCCESS"

\* ====================================================== claims: submitter
CreationCallIndexes ==
    {i \in 1..Len(requests) :
        requests[i].method = "POST" /\ requests[i].url.endpoint = "logCollectionJobs"}

\* C9: when the creation answer has a status code other than 201,
\* create_ftdc_job fails with JobCreationError, returns no JobId and has made
\* exactly one creation call.
C9_NotCreatedFails ==
    (/\ entry = "create_ftdc_job" /\ requests # <<>>
     /\ requests[Len(requests)].status_code # 201)
        => /\ pc = "raised" /\ err = "JobCreationError" /\ ret = NoValue
           /\ job_id = None
           /\ Cardinality(CreationCallIndexes) = 1
           /\ Len(requests) = 1

\* The creation call was answered 200, not 201, and the call failed.
C9_Witness ==
    /\ entry = "create_ftdc_job" /\ pc = "raised" /\ err = "JobCreationError"
    /\ Len(requests) = 1
    /\ requests[1].method = "POST"
    /\ requests[1].status_code = 200

\* ===================================================== claims: downloader
\* C10: when the download endpoint answers with a status code other than 200,
\* download_ftdc_data fails with DownloadError without opening the destination
\* file: no path was opened and the disk is as it was before the call.
C10_NoWriteOnFailure ==
    (/\ entry = "download_ftdc_data" /\ requests # <<>>
     /\ requests[Len(requests)].url.endpoint = "logCollectionJobs/{job_id}/download"
     /\ requests[Len(requests)].status_code # 200)
        => /\ pc = "raised" /\ err = "DownloadError" /\ ret = NoValue
           /\ opens = <<>>
           /\ disk = disk_before

\* The download was answered 500 while an older file lay at the destination:
\* the call failed and the older file is untouched.
C10_Witness ==
    /\ entry = "download_ftdc_data" /\ pc = "raised" /\ err = "DownloadError"
    /\ requests[1].status_code = 500
    /\ disk_before # {}
    /\ disk = disk_before
    /\ opens = <<>>

\* ------------------------------------------------ claims: get_ftdc_data
\* The stage a logged request belongs to: 1 resolve, 2 submit, 3 poll, 4 download.
StageOf(request) ==
    CASE request.url.endpoint = "processes" -> 1
      [] request.url.endpoint = "logCollectionJobs" -> 2
      [] request.url.endpoint = "logCollectionJobs/{job_id}" -> 3
      [] OTHER -> 4

\* The error class with which each stage reports its failure.
StageError(stage) ==
    CASE stage = 1 -> "ReplicaSetNotFoundError"
      [] stage = 2 -> "JobCreationError"
      [] stage = 3 -> "JobStatusError"
      [] OTHER -> "DownloadError"

StageErrors == {StageError(k) : k \in 1..4}

LastRequest == requests[Len(requests)]

\* C11: in a run of get_ftdc_data the requests are issued stage by stage in the
\* order resolve, submit, poll, download, none before the one of the stage
\* before it; when a stage fails the run ends with that stage's own error class,
\* as raised, and the log holds no request of a later stage.
C11_StagesInOrder ==
    entry = "get_ftdc_data" =>
        /\ \A i \in 1..Len(requests) :
              IF i = 1
              THEN StageOf(requests[i]) = 1
              ELSE StageOf(requests[i]) \in
                       {StageOf(requests[i - 1]), StageOf(requests[i - 1]) + 1}
        /\ pc = "raised" =>
              /\ requests # <<>>
              /\ StageOf(LastRequest) = 1 => err = StageError(1)
              /\ (StageOf(LastRequest) = 2 /\ LastRequest.status_code # 201)
                    => err = StageError(2)
              /\ StageOf(LastRequest) = 3 => err = StageError(3)
              /\ (StageOf(LastRequest) = 4 /\ LastRequest.status_code # 200)
                    => err = StageError(4)
              /\ \A k \in 1..4 :
                    err = StageError(k) => \A i \in 1..Len(requests) : StageOf(requests[i]) <= k
              /\ err \in StageErrors => err = StageError(StageOf(LastRequest))

\* The run passed resolve and submit and failed in the poll stage, after a wait.
C11_Witness ==
    /\ entry = "get_ftdc_data" /\ pc = "raised"
    /\ err = "JobStatusError"
    /\ Len(requests) = 4
    /\ StageOf(requests[2]) = 2
    /\ StageOf(LastRequest) = 3
    /\ polled = <<"IN_PROGRESS", "FAILURE">>

\* The job request of the run's creation call, the second request of the log.
SubmittedPayload == requests[2].json

\* C12: a successful run of get_ftdc_data returns the path
\* <output_dir>/ftdc_data_<resourceName>_job_<jobId>.tar.gz, where resourceName
\* is the name the resolver returned, which is the groupName of the first
\* matching record of the list it fetched and not the candidate name, and jobId
\* the id the creation call returned; and the job request the run submitted
\* carries that same resourceName.
C12_ReturnedPath ==
    entry = "get_ftdc_data" =>
        /\ pc = "create_ftdc_job" =>
              /\ OccurringIndexes # {}
              /\ replica_set = shards[FirstOccurring].replica_set_name
        /\ Len(requests) >= 2 => SubmittedPayload.resourceName = replica_set
        /\ pc = "done" =>
              /\ Len(requests) >= 4
              /\ job_id \in JobIds
              /\ ret = Returned([dir |-> output_dir,
                                 name |-> <<"ftdc_data_">> \o SubmittedPayload.resourceName
                                            \o <<"_job_">> \o job_id \o <<".tar.gz">>])

\* A successful run whose candidate name "a" resolved to the groupName "ab":
\* the file is named after "ab".
C12_Witness ==
    /\ entry = "get_ftdc_data" /\ pc = "done"
    /\ replica_set_name = <<"a">>
    /\ SubmittedPayload.resourceName = <<"a", "b">>
    /\ job_id = <<"j", "2">>
    /\ ret = Returned([dir |-> "/data",
                       name |-> <<"ftdc_data_", "a", "b", "_job_", "j", "2", ".tar.gz">>])

\* ------------------------------------------------ claims: download command
\* C13: the download command exits with status 0 exactly when get_ftdc_data
\* returned, and then it has printed the returned path and nothing to the error
\* stream; when get_ftdc_data raised, an FTDCError or any other exception, it
\* has printed one message naming the error to the error stream, no path, and
\* exits with status 1. Before that it has neither printed nor exited.
C13_ExitStatus ==
    entry = "download" =>
        /\ pc # "exited" => (exit_code = -1 /\ stdout = <<>> /\ stderr = <<>>)
        /\ pc = "exited" =>
              /\ exit_code \in {0, 1}
              /\ exit_code = 0 <=> ret.returned
              /\ ret.returned =>
                    /\ err = "none"
                    /\ Len(stdout) = 1 /\ stdout[1].path = ret.value
                    /\ ret.value = file_path
                    /\ stderr = <<>>
              /\ ~ret.returned =>
                    /\ err # "none"
                    /\ exit_code = 1
                    /\ stdout = <<>>
                    /\ Len(stderr) = 1 /\ stderr[1].error = err

\* The command ended with status 0 after printing the path of the written file.
C13_Witness ==
    /\ entry = "download" /\ pc = "exited"
    /\ exit_code = 0
    /\ stdout = <<[text |-> "Downloaded to: ", path |-> file_path]>>
    /\ File(file_path, <<"c1", "c2">>) \in disk

\* The command ended with status 1 on an exception that is no FTDCError.
C13_WitnessUnexpected ==
    /\ entry = "download" /\ pc = "exited"
    /\ exit_code = 1
    /\ err = "OSError"
    /\ stderr = <<[prefix |-> "Unexpected error: ", error |-> "OSError"]>>

\* ------------------------------------------------ claims: poller liveness
\* Every status query so far was answered 200 with the state IN_PROGRESS.
AllInProgress ==
    /\ \A i \in 1..Len(requests) : requests[i].status_code = 200
    /\ Len(polled) = Len(requests)
    /\ \A i \in 1..Len(polled) : polled[i] = "IN_PROGRESS"

\* The last status query is the only one not answered 200 with IN_PROGRESS.
SettledByLastAnswer ==
    /\ requests # <<>>
    /\ \A i \in 1..(Len(requests) - 1) :
          requests[i].status_code = 200 /\ polled[i] = "IN_PROGRESS"
    /\ \/ LastRequest.status_code # 200
       \/ (Len(polled) = Len(requests) /\ polled[Len(polled)] # "IN_PROGRESS")

\* C14: check_job_state is still in its loop exactly as long as every status
\* query was answered 200 with IN_PROGRESS, having waited once after each of
\* them, however many they are; it has returned or failed exactly when the last
\* query is the first one answered otherwise; and when the status endpoint stops
\* answering IN_PROGRESS at some time, check_job_state eventually returns or fails.
C14_PollsUntilSettled ==
    /\ [](entry = "check_job_state" =>
            /\ pc = "check_job_state" <=> AllInProgress
            /\ pc = "check_job_state" => Len(sleeps) = Len(requests)
            /\ Finished <=> SettledByLastAnswer)
    /\ (entry = "check_job_state" => <>Finished)

\* After MaxPolls answers IN_PROGRESS the poller has neither returned nor failed.
C14_Witness ==
    /\ entry = "check_job_state" /\ pc = "check_job_state"
    /\ Len(requests) = MaxPolls
    /\ AllInProgress
    /\ Len(sleeps) = MaxPolls

\* ------------------------------------------------ claims: stage inputs
\* The downloadUrl check_job_state returned to get_ftdc_data.
PollerOutput == DownloadUrlOf(response.data)

\* The submitter's request carries the resolver's output and every status query
\* the submitter's job id.
ResolverFeedsSubmitterFeedsPoller ==
    \A i \in 1..Len(requests) :
        /\ StageOf(requests[i]) = 2 =>
              (Truthy(replica_set) /\ requests[i].json.resourceName = replica_set)
        /\ StageOf(requests[i]) = 3 =>
              (job_id \in JobIds /\ requests[i].url.job = job_id)

\* C15 as stated: each stage consumes the output of the stage before it: the
\* submitter the resolver's resourceName, the poller the submitter's job id, and
\* the url the downloader fetches is the downloadUrl the poller returned.
C15_DownloadFetchesPollerOutput ==
    entry = "get_ftdc_data" =>
        /\ ResolverFeedsSubmitterFeedsPoller
        /\ \A i \in 1..Len(requests) :
              StageOf(requests[i]) = 4 =>
                  DownloadUrlStr(requests[i].url.group, requests[i].url.job) = PollerOutput

\* C15 amended: the submitter consumes the resolver's resourceName, the poller
\* and the downloader both consume the submitter's job id: the download request
\* is issued once the poller returned, to the download endpoint of that job in
\* the run's group, whatever downloadUrl the poller returned.
C15_StageInputs ==
    entry = "get_ftdc_data" =>
        /\ ResolverFeedsSubmitterFeedsPoller
        /\ \A i \in 1..Len(requests) :
              StageOf(requests[i]) = 4 =>
                  /\ i = Len(polled) + 3
                  /\ polled[Len(polled)] \in {"SUCCESS", "MARKED_FOR_EXPIRY"}
                  /\ requests[i].url.group = group_key
                  /\ requests[i].url.job = job_id
                  /\ requests[i].url.endpoint = "logCollectionJobs/{job_id}/download"

\* The poller returned a downloadUrl elsewhere, and the run fetched the download
\* endpoint of the job and wrote the file.
C15_Witness ==
    /\ entry = "get_ftdc_data" /\ pc = "done"
    /\ PollerOutput = <<"u", "1">>
    /\ StageOf(LastRequest) = 4
    /\ LastRequest.url = [group |-> group_key,
                          endpoint |-> "logCollectionJobs/{job_id}/download",
                          job |-> job_id]
    /\ File(ret.value, <<"c1">>) \in disk

\* ------------------------------------------------ claims: job request
\* C16: every job request get_ftdc_data submits asks for an integer number of
\* bytes that is at least 1, whatever byte_size the caller passed.
C16_RequestedBytesPositive ==
    entry = "get_ftdc_data" =>
        \A i \in 1..Len(requests) :
            StageOf(requests[i]) = 2 =>
                /\ requests[i].json.sizeRequestedPerFileBytes \in Int
                /\ requests[i].json.sizeRequestedPerFileBytes >= 1

\* ------------------------------------------------ claims: no retry
\* The number of logged requests of a stage.
RequestsOfStage(stage) == Cardinality({i \in 1..Len(requests) : StageOf(requests[i]) = stage})

\* C17: a run of get_ftdc_data issues at most one list query, at most one
\* job-creation call and at most one download request, and every status query
\* but the first follows a status query answered 200 with IN_PROGRESS.
C17_NoRetry ==
    entry = "get_ftdc_data" =>
        /\ RequestsOfStage(1) <= 1
        /\ RequestsOfStage(2) <= 1
        /\ RequestsOfStage(4) <= 1
        /\ \A i \in 2..Len(requests) :
              (StageOf(requests[i]) = 3 /\ StageOf(requests[i - 1]) = 3) =>
                  /\ requests[i - 1].status_code = 200
                  /\ polled[i - 3] = "IN_PROGRESS"

\* A successful run: one list query, one creation call, two IN_PROGRESS answers
\* and so three status queries, one download request.
C17_Witness ==
    /\ entry = "get_ftdc_data" /\ pc = "done"
    /\ Len(requests) = 6
    /\ RequestsOfStage(1) = 1 /\ RequestsOfStage(2) = 1
    /\ RequestsOfStage(3) = 3 /\ RequestsOfStage(4) = 1
    /\ polled = <<"IN_PROGRESS", "IN_PROGRESS", "SUCCESS">>

\* ------------------------------------------------ claims: partial file
\* What the file at path p holds.
DataAt(files, p) == (CHOOSE f \in files : f.path = p).data

\* The download was answered 200, the file was opened, and the stream or a
\* write failed afterwards.
FailedWhileWriting ==
    /\ pc = "raised"
    /\ opens # <<>>
    /\ err \in {"ConnectionError", "OSError"}

\* C18: in download_ftdc_data, after a 200 answer, every chunk read is appended
\* to the destination file in the order of the stream, and a failure of the
\* stream or of a write leaves the disk as it is at that moment: the destination
\* file stays, holding exactly the chunks written so far, and no path is returned.
C18_PartialFileRemains ==
    /\ [](entry = "download_ftdc_data" =>
            /\ pc = "write" => (\E f \in disk : f.path = file_path)
            /\ FailedWhileWriting =>
                  /\ LastRequest.status_code = 200
                  /\ \E f \in disk : f.path = file_path
                  /\ DataAt(disk, file_path) \o stream \in Bodies
                  /\ ret = NoValue)
    /\ [][entry = "download_ftdc_data" =>
            /\ (pc = "write" /\ pc' = "write") =>
                  /\ DataAt(disk', file_path) = Append(DataAt(disk, file_path), Head(stream))
                  /\ stream' = Tail(stream)
            /\ (pc = "write" /\ pc' = "raised") =>
                  /\ disk' = disk
                  /\ stream' = stream
                  /\ ret' = NoValue]_vars

\* The stream broke after the first of two chunks: the file holds that chunk
\* and the call returned nothing.
C18_Witness ==
    /\ entry = "download_ftdc_data" /\ pc = "raised"
    /\ err = "ConnectionError"
    /\ opens = <<file_path>>
    /\ File(file_path, <<"c1">>) \in disk
    /\ stream = <<"c2">>
    /\ ret = NoValue

\* ------------------------------------------------ claims: download after success
\* Request i is a status query for the run's job answered 200 with a success state.
AnsweredSuccess(i) ==
    /\ StageOf(requests[i]) = 3
    /\ requests[i].status_code = 200
    /\ requests[i].url.job = job_id
    /\ i - 2 \in 1..Len(polled)
    /\ polled[i - 2] \in {"SUCCESS", "MARKED_FOR_EXPIRY"}

\* C19: in a run of get_ftdc_data a download request is issued, and a file
\* opened, only after a status query for the job id the creation call returned
\* was answered SUCCESS or MARKED_FOR_EXPIRY; a run that failed in resolve,
\* submit or poll has opened no file and left the disk as it was; a run opens at
\* most one file; and the creation call, the status queries and the download
\* request all go to the run's group, the latter two for the created job id.
C19_DownloadAfterSuccess ==
    entry = "get_ftdc_data" =>
        /\ \A i \in 1..Len(requests) :
              StageOf(requests[i]) = 4 => \E h \in 1..(i - 1) : AnsweredSuccess(h)
        /\ (opens # <<>> \/ disk # disk_before) =>
              /\ StageOf(LastRequest) = 4
              /\ LastRequest.status_code = 200
        /\ (pc = "raised" /\ StageOf(LastRequest) <= 3) =>
              (opens = <<>> /\ disk = disk_before)
        /\ Len(opens) <= 1
        /\ \A f \in disk \ disk_before : f.path = file_path
        /\ Cardinality(disk \ disk_before) <= 1
        /\ \A i \in 1..Len(requests) :
              /\ requests[i].url.group = group_key
              /\ StageOf(requests[i]) \in {3, 4} =>
                    (job_id \in JobIds /\ requests[i].url.job = job_id)

\* The job was polled to MARKED_FOR_EXPIRY in group g2, then the download was
\* requested for the same job and one file written.
C19_Witness ==
    /\ entry = "get_ftdc_data" /\ pc = "done"
    /\ group_key = "g2"
    /\ polled = <<"IN_PROGRESS", "MARKED_FOR_EXPIRY">>
    /\ AnsweredSuccess(4)
    /\ StageOf(requests[5]) = 4
    /\ requests[5].url.job = requests[4].url.job
    /\ opens = <<ret.value>>
    /\ Cardinality(disk) = 1

\* ------------------------------------------------ claims: failed list query
\* C20: when the list query of a run is answered with a status other than 200,
\* get_replica_set fails with ReplicaSetNotFoundError, the error class of an
\* absent match, without having read any record of the answer, and the run ends
\* there: it sends no creation call and has no job.
C20_ListFailureIsNotFound ==
    (entry = "get_ftdc_data" /\ requests # <<>> /\ requests[1].status_code # 200) =>
        /\ pc = "raised"
        /\ err = "ReplicaSetNotFoundError"
        /\ ret = NoValue
        /\ shards = <<>>
        /\ replica_set = None
        /\ Len(requests) = 1
        /\ job_id = None

\* The list endpoint answered 500 and the run ended with ReplicaSetNotFoundError.
C20_Witness ==
    /\ entry = "get_ftdc_data" /\ pc = "raised"
    /\ Len(requests) = 1
    /\ StageOf(requests[1]) = 1
    /\ requests[1].status_code = 500
    /\ err = "ReplicaSetNotFoundError"
====
